---------------------------- MODULE Spec2Model ----------------------------
(***************************************************************************)
(* pysetta: extraction -> merge -> render pipeline of                      *)
(* src/src/pysetta/lib/command.py and src/src/pysetta/lib/utils.py.        *)
(*                                                                         *)
(* Text is a sequence of tokens.  A token is one character, except that a  *)
(* configured boundary marker ("<$", "$>", "<#", "#>") is one token, so a  *)
(* regular expression over characters becomes a scan over tokens.  No      *)
(* token is a newline, so the regex "." matches every token.               *)
(***************************************************************************)
EXTENDS Integers, Sequences, FiniteSets, TLC

VARIABLES
    pc,             \* position of the run
    inner_text,     \* TagData.from_text: the argument
    padded_text,    \* the same argument with surrounding whitespace added
    tag_data,       \* TagData.from_text(inner_text)
    padded_tag,     \* TagData.from_text(padded_text)
    template_text,  \* template.read_text() of every template of the run
    files,          \* the persisted translation maps under language.translations_dir
    languages,      \* config.languages, in order
    strict,         \* config.strict
    dry_run,        \* Command.dry_run
    extracted,      \* Command.extracted
    cursor,         \* position of the loop over languages / (language, template) pairs
    path_data,      \* the PathData collected so far
    raised,         \* the exception that ended the run, or NoError
    rendered        \* the documents written under language.translated_dir

vars == <<pc, inner_text, padded_text, tag_data, padded_tag, template_text, files,
          languages, strict, dry_run, extracted, cursor, path_data, raised,
          rendered>>

---------------------------------------------------------------------------
(* Bounds *)

\* longest inner text handed to TagData.from_text in SpecKey
MaxLen == 5
\* most whitespace tokens added on either side of an inner text
MaxPad == 1

---------------------------------------------------------------------------
(* Strings *)

Alphabet == {" ", "/", ":", "a"}

\* code point order of the tokens, as str comparison uses it
CodePoint(c) ==
    CASE c = " "  -> 32
      [] c = "#>" -> 35
      [] c = "$>" -> 36
      [] c = "/"  -> 47
      [] c = ":"  -> 58
      [] c = "<#" -> 60
      [] c = "<$" -> 61
      [] c = "a"  -> 97
      [] c = "b"  -> 98
      [] c = "k"  -> 107
      [] c = "n"  -> 110
      [] c = "x"  -> 120
      [] c = "y"  -> 121
      [] OTHER    -> 200

RECURSIVE StrLess(_, _)
StrLess(s, t) ==
    IF t = <<>> THEN FALSE
    ELSE IF s = <<>> THEN TRUE
    ELSE IF Head(s) = Head(t) THEN StrLess(Tail(s), Tail(t))
    ELSE CodePoint(Head(s)) < CodePoint(Head(t))

RECURSIVE Insert(_, _)
Insert(x, sorted) ==
    IF sorted = <<>> THEN <<x>>
    ELSE IF StrLess(Head(sorted), x) THEN <<Head(sorted)>> \o Insert(x, Tail(sorted))
    ELSE <<x>> \o sorted

\* sorted(list_of_str)
RECURSIVE Sorted(_)
Sorted(list) ==
    IF list = <<>> THEN <<>> ELSE Insert(Head(list), Sorted(Tail(list)))

\* list(dict.fromkeys(list)): drops repeated entries; with Sorted it is sorted(set(list))
RECURSIVE Dedup(_)
Dedup(list) ==
    IF list = <<>> THEN <<>>
    ELSE LET rest == Dedup(Tail(list))
         IN IF \E i \in 1..Len(rest) : rest[i] = Head(list)
            THEN rest ELSE <<Head(list)>> \o rest

IsSpace(c) == c = " "

RECURSIVE LStrip(_)
LStrip(s) ==
    IF s # <<>> /\ IsSpace(Head(s)) THEN LStrip(Tail(s)) ELSE s

RECURSIVE RStrip(_)
RStrip(s) ==
    IF s # <<>> /\ IsSpace(s[Len(s)]) THEN RStrip(SubSeq(s, 1, Len(s) - 1)) ELSE s

\* str.strip()
Strip(s) == RStrip(LStrip(s))

\* str.find(sep, start): the first index >= start where sep occurs, 0 when none
Find(s, sep, start) ==
    LET hits == {i \in start..(Len(s) - Len(sep) + 1) :
                    SubSeq(s, i, i + Len(sep) - 1) = sep}
    IN IF hits = {} THEN 0 ELSE CHOOSE i \in hits : \A j \in hits : i <= j

\* str.split(sep, maxsplit): the list of parts; maxsplit < 0 means no limit
RECURSIVE Split(_, _, _)
Split(s, sep, maxsplit) ==
    LET i == Find(s, sep, 1)
    IN IF maxsplit = 0 \/ i = 0 THEN <<s>>
       ELSE <<SubSeq(s, 1, i - 1)>>
            \o Split(SubSeq(s, i + Len(sep), Len(s)), sep, maxsplit - 1)

\* In(sub, s): Python's `sub in s`
In(sub, s) == Find(s, sub, 1) # 0

---------------------------------------------------------------------------
(* Keys *)

\* sha3_224(text.encode()).hexdigest(): a digest, taken to be collision free
\* and distinct from every key written out in a template
Sha3Hex(text) == [digest |-> TRUE, of |-> text]

\* a key that is the text itself (the middle part of "::key::original")
StrKey(text) == [digest |-> FALSE, of |-> text]

\* TagData.from_text, with the assignment of the unpacked parts to
\* (empty, key, original) happening as soon as split returns three parts
TagData_from_text(text) ==
    LET stripped == Strip(text)
        parts == Split(stripped, <<":", ":">>, 2)
    IN IF Len(parts) # 3
       THEN [key |-> Sha3Hex(stripped), original |-> stripped, comments |-> <<>>]
       ELSE IF parts[1] = <<>>
            THEN [key |-> StrKey(parts[2]), original |-> parts[3],
                  comments |-> Sorted(Split(parts[2], <<"/", "/">>, -1))]
            ELSE [key |-> StrKey(parts[2]), original |-> stripped, comments |-> <<>>]

---------------------------------------------------------------------------
(* Configuration: get_config *)

NoError == [exc |-> "None"]
\* a path of a translations directory: absent, or a YAML document
NoFile == [exists |-> FALSE, doc |-> <<>>]
File(doc) == [exists |-> TRUE, doc |-> doc]

\* config.boundaries: the opening and closing marker of each kind of span;
\* symbol is the second character of the opening marker
TranslationBoundary == [opening |-> "<$", closing |-> "$>", symbol |-> "$"]
LiteralBoundary == [opening |-> "<#", closing |-> "#>", symbol |-> "#"]

DefaultLanguage == "en"
OtherLanguages == {"de", "fr"}

\* Language.is_default
is_default(code) == code = DefaultLanguage

\* Language.construction_message: the value of the language in the settings
construction_message(code) == <<"under construction", code>>

\* Command.templates: the sorted paths of the run
Templates == <<"t1", "t2">>
TemplateSet == {Templates[i] : i \in 1..Len(Templates)}

\* Language.get_translations_path / Language.get_translated_path
get_translations_path(code, template) == <<"translations", code, template>>
get_translated_path(code, template) == <<"translated", code, template>>

---------------------------------------------------------------------------
(* Regular expressions: Boundary.regex *)

\* the matches of boundary.regex in s from position start on, leftmost first,
\* each the shortest: [from, to, inner_text]
RECURSIVE Matches(_, _, _)
Matches(s, boundary, start) ==
    LET i == Find(s, <<boundary.opening>>, start)
        j == IF i = 0 THEN 0 ELSE Find(s, <<boundary.closing>>, i + 1)
    IN IF i = 0 \/ j = 0 THEN <<>>
       ELSE <<[from |-> i, to |-> j, inner_text |-> SubSeq(s, i + 1, j - 1)]>>
            \o Matches(s, boundary, j + 1)

\* regex.findall(s): the inner_text group of every match
FindAll(s, boundary) ==
    LET ms == Matches(s, boundary, 1)
    IN [i \in 1..Len(ms) |-> ms[i].inner_text]

---------------------------------------------------------------------------
(* Translations: dict[str, Translation], in insertion order *)

HasKey(dict, key) == \E i \in 1..Len(dict) : dict[i].key = key

Get(dict, key) == dict[CHOOSE i \in 1..Len(dict) : dict[i].key = key]

\* dict[key] = value: an existing key keeps its place, a new key goes last
DictSet(dict, key, value) ==
    IF HasKey(dict, key)
    THEN [i \in 1..Len(dict) |-> IF dict[i].key = key THEN value ELSE dict[i]]
    ELSE Append(dict, value)

Keys(dict) == {dict[i].key : i \in 1..Len(dict)}

\* Translation.from_text
Translation_from_text(text, boundary) ==
    LET tag == TagData_from_text(text)
    IN [key        |-> tag.key,
        original   |-> tag.original,
        translated |-> <<>>,
        comments   |-> tag.comments,
        literals   |-> Sorted(Dedup(FindAll(tag.original, boundary)))]

\* Translation.as_json: comments and literals are left out when empty
as_json(unit) ==
    [original |-> unit.original, translated |-> unit.translated,
     comments |-> unit.comments, literals |-> unit.literals]

\* serialize: the YAML mapping, one entry per key in dict order
serialize(dict) ==
    [i \in 1..Len(dict) |-> [key |-> dict[i].key, value |-> as_json(dict[i])]]

\* deserialize of an existing file; a left-out list reads as ()
deserialize(doc) ==
    [i \in 1..Len(doc) |->
        [key        |-> doc[i].key,
         original   |-> doc[i].value.original,
         translated |-> doc[i].value.translated,
         comments   |-> doc[i].value.comments,
         literals   |-> doc[i].value.literals]]

---------------------------------------------------------------------------
(* Command.extract_translatable *)

\* paths[key].append(template) on a defaultdict(list)
PathsAppend(paths, key, template) ==
    IF HasKey(paths, key)
    THEN [i \in 1..Len(paths) |->
            IF paths[i].key = key
            THEN [paths[i] EXCEPT !.paths = Append(@, template)]
            ELSE paths[i]]
    ELSE Append(paths, [key |-> key, paths |-> <<template>>])

\* the inner loop: one template's matches, in order
RECURSIVE ExtractMatches(_, _, _)
ExtractMatches(ext, template, inner_texts) ==
    IF inner_texts = <<>> THEN ext
    ELSE LET translation == Translation_from_text(Head(inner_texts), LiteralBoundary)
         IN ExtractMatches(
                [translations |->
                    [ext.translations EXCEPT
                        ![template] = DictSet(@, translation.key, translation)],
                 paths |-> PathsAppend(ext.paths, translation.key, template)],
                template, Tail(inner_texts))

\* the outer loop over self.templates
RECURSIVE ExtractTemplates(_, _, _)
ExtractTemplates(ext, templates, texts) ==
    IF templates = <<>> THEN ext
    ELSE ExtractTemplates(
            ExtractMatches(
                [ext EXCEPT !.translations[Head(templates)] = <<>>],
                Head(templates),
                FindAll(texts[Head(templates)], TranslationBoundary)),
            Tail(templates), texts)

extract_translatable(templates, texts) ==
    ExtractTemplates([translations |-> [t \in TemplateSet |-> <<>>], paths |-> <<>>],
                     templates, texts)

---------------------------------------------------------------------------
(* Command.update_translations and Command.get_translations *)

\* the (key, path) pairs in the order the two nested loops visit them
RECURSIVE KeyPathPairs(_)
KeyPathPairs(paths) ==
    IF paths = <<>> THEN <<>>
    ELSE [i \in 1..Len(Head(paths).paths) |->
            [key |-> Head(paths).key, path |-> Head(paths).paths[i]]]
         \o KeyPathPairs(Tail(paths))

MismatchError(key) ==
    [exc |-> "ValueError", msg |-> "Translation mismatch", key |-> key]

\* a merge in which the later source wins
MismatchNever(new_translation, old_translation) == FALSE

\* whether update_translations raises on the pair (the test of lines 76-79)
Mismatch(new_translation, old_translation) ==
    /\ new_translation.translated # <<>>
    /\ new_translation.translated # old_translation.translated

\* the pairs left to visit; the result is the dicts as update_translations
\* leaves them and the exception it raised, if any
RECURSIVE UpdateLoop(_, _, _)
UpdateLoop(new_translations, old_translations, pairs) ==
    IF pairs = <<>> THEN [translations |-> new_translations, raised |-> NoError]
    ELSE LET key == Head(pairs).key
             path == Head(pairs).path
         IN IF \/ ~HasKey(old_translations, key)
               \/ Get(old_translations, key).translated = <<>>
            THEN UpdateLoop(new_translations, old_translations, Tail(pairs))
            ELSE IF Mismatch(Get(new_translations[path], key),
                             Get(old_translations, key))
                 THEN [translations |-> new_translations,
                       raised |-> MismatchError(key)]
                 ELSE UpdateLoop(
                        [new_translations EXCEPT
                            ![path] = DictSet(@, key, Get(old_translations, key))],
                        old_translations, Tail(pairs))

\* a merge that carries a translation to the first template of a key only
UpdateFirstPathOnly(ext, new_translations, old_translations) ==
    UpdateLoop(new_translations, old_translations,
               KeyPathPairs([i \in 1..Len(ext.paths) |->
                    [ext.paths[i] EXCEPT !.paths = <<Head(@)>>]]))

\* a merge that also keeps the units of the old map that no template has
RECURSIVE AppendMissing(_, _)
AppendMissing(dict, old_translations) ==
    IF old_translations = <<>> THEN dict
    ELSE AppendMissing(
            IF HasKey(dict, Head(old_translations).key) THEN dict
            ELSE Append(dict, Head(old_translations)),
            Tail(old_translations))

UpdateKeepingOld(ext, new_translations, old_translations) ==
    LET r == UpdateLoop(new_translations, old_translations, KeyPathPairs(ext.paths))
    IN [r EXCEPT !.translations =
            [t \in DOMAIN @ |-> AppendMissing(@[t], old_translations)]]

update_translations(ext, new_translations, old_translations) ==
    UpdateLoop(new_translations, old_translations, KeyPathPairs(ext.paths))

\* self.extracted["translations"].copy(): a new outer dict whose values are
\* the very per-template dicts of self.extracted
ShallowCopy(translations) == translations

\* the loop over the files rglob yields, in the order it yields them
RECURSIVE ReadFiles(_, _, _, _)
ReadFiles(ext, new_translations, dir, order) ==
    IF order = <<>> THEN [translations |-> new_translations, raised |-> NoError]
    ELSE LET r == update_translations(ext, new_translations,
                                     deserialize(dir[Head(order)].doc))
         IN IF r.raised # NoError THEN r
            ELSE ReadFiles(ext, r.translations, dir, Tail(order))

get_translations(ext, dir, order) ==
    ReadFiles(ext, ShallowCopy(ext.translations), dir, order)

\* what self.extracted["translations"] holds once get_translations has run:
\* the per-template dicts are shared with new_translations, so every
\* assignment new_translations[path][key] = ... is one to self.extracted too
ExtractedAfter(ext, new_translations) ==
    [ext EXCEPT !.translations = new_translations]

\* the orders in which rglob may yield the files of a translations directory
FileOrders(dir) ==
    LET present == {f \in DOMAIN dir : dir[f].exists}
    IN {o \in UNION {[1..n -> present] : n \in {Cardinality(present)}} :
            \A i, j \in 1..Len(o) : i # j => o[i] # o[j]}

---------------------------------------------------------------------------
(* Inputs of a run *)

Range(f) == {f[i] : i \in DOMAIN f}

\* inner texts of translation spans
SpanA == <<"a">>
SpanK1 == <<":", ":", "k", ":", ":", "a">>
SpanK2 == <<":", ":", "k", ":", ":", "b">>

\* a template: the spans, each between the translation markers, separated
\* by a blank
RECURSIVE TemplateOf(_)
TemplateOf(spans) ==
    IF spans = <<>> THEN <<>>
    ELSE <<TranslationBoundary.opening>> \o Head(spans)
         \o <<TranslationBoundary.closing>>
         \o (IF Len(spans) > 1 THEN <<" ">> ELSE <<>>) \o TemplateOf(Tail(spans))

GenerateTexts ==
    {TemplateOf(<<SpanA>>), TemplateOf(<<SpanA, SpanK2>>),
     TemplateOf(<<SpanK1, SpanK2>>)}

Unit(key, original, translated, literals) ==
    [key |-> key, original |-> original, translated |-> translated,
     comments |-> <<>>, literals |-> literals]

\* units a translator may have left in a persisted map
GenerateUnits ==
    {Unit(Sha3Hex(<<"a">>), <<"a">>, tr, <<>>) : tr \in {<<>>, <<"x">>}}
    \cup {Unit(StrKey(<<"k">>), <<"a">>, <<"x">>, <<>>),
          Unit(StrKey(<<"k">>), <<"b">>, <<"y">>, <<>>)}

\* most units persisted under the translations directories before a generate run
MaxPersisted == 2

GenerateEntries ==
    {[code |-> c, file |-> f, unit |-> u] :
        c \in OtherLanguages, f \in TemplateSet, u \in GenerateUnits}

\* a set of units as a dict, in some order
RECURSIVE DictOf(_)
DictOf(units) ==
    IF units = {} THEN <<>>
    ELSE LET u == CHOOSE u \in units : TRUE
         IN <<u>> \o DictOf(units \ {u})

\* the units of one file among entries, as a dict
UnitsOf(entries, code, file) ==
    DictOf({e.unit : e \in {e \in entries : e.code = code /\ e.file = file}})

UniqueKeys(dict) ==
    \A i, j \in 1..Len(dict) : dict[i].key = dict[j].key => i = j

\* the translations directories holding exactly the entries
Persisted(entries) ==
    [c \in OtherLanguages |->
        [f \in TemplateSet |->
            IF UnitsOf(entries, c, f) = <<>> THEN NoFile
            ELSE File(serialize(UnitsOf(entries, c, f)))]]

LanguageLists == {<<"fr", "de", "en">>, <<"de", "fr", "en">>}

NoTag == [key |-> StrKey(<<>>), original |-> <<>>, comments |-> <<>>]
NoExtracted == [translations |-> [t \in TemplateSet |-> <<>>], paths |-> <<>>]

KeyIdle ==
    /\ inner_text = <<>>
    /\ padded_text = <<>>
    /\ tag_data = NoTag
    /\ padded_tag = NoTag

PipelineIdle ==
    /\ template_text = [t \in TemplateSet |-> <<>>]
    /\ files = [c \in OtherLanguages |-> [f \in TemplateSet |-> NoFile]]
    /\ languages = <<>>
    /\ strict = FALSE
    /\ dry_run = FALSE
    /\ extracted = NoExtracted
    /\ cursor = 1
    /\ path_data = <<>>
    /\ raised = NoError
    /\ rendered = [c \in OtherLanguages \cup {DefaultLanguage} |->
                        [t \in TemplateSet |-> NoFile]]

---------------------------------------------------------------------------
(* TagData.from_text on every inner text up to MaxLen tokens *)

Texts(n) == UNION {[1..k -> Alphabet] : k \in 0..n}
Blanks(n) == [i \in 1..n |-> " "]

InitKey ==
    /\ pc = "from_text"
    /\ inner_text \in Texts(MaxLen)
    /\ \E l, r \in 0..MaxPad : padded_text = Blanks(l) \o inner_text \o Blanks(r)
    /\ tag_data = NoTag
    /\ padded_tag = NoTag
    /\ PipelineIdle

FromText ==
    /\ pc = "from_text"
    /\ tag_data' = TagData_from_text(inner_text)
    /\ padded_tag' = TagData_from_text(padded_text)
    /\ pc' = "done"
    /\ UNCHANGED <<inner_text, padded_text, template_text, files, languages, strict,
                   dry_run, extracted, cursor, path_data, raised, rendered>>

NextKey == FromText

SpecKey == InitKey /\ [][NextKey]_vars

---------------------------------------------------------------------------
(* Command.__init__ and Command.generate *)

InitGenerate ==
    /\ pc = "init"
    /\ KeyIdle
    /\ template_text \in [TemplateSet -> GenerateTexts]
    /\ \E entries \in SUBSET GenerateEntries :
        /\ Cardinality(entries) <= MaxPersisted
        /\ \A c \in OtherLanguages, f \in TemplateSet :
                UniqueKeys(UnitsOf(entries, c, f))
        /\ files = Persisted(entries)
    /\ languages \in LanguageLists
    /\ strict = FALSE
    /\ dry_run \in BOOLEAN
    /\ extracted = NoExtracted
    /\ cursor = 1
    /\ path_data = <<>>
    /\ raised = NoError
    /\ rendered = [c \in OtherLanguages \cup {DefaultLanguage} |->
                        [t \in TemplateSet |-> NoFile]]

\* Command.__init__: self.extracted = self.extract_translatable()
Construct ==
    /\ pc = "init"
    /\ extracted' = extract_translatable(Templates, template_text)
    /\ pc' = "command"
    /\ UNCHANGED <<inner_text, padded_text, tag_data, padded_tag, template_text,
                   files, languages, strict, dry_run, cursor, path_data, raised,
                   rendered>>

\* the PathData get_generate_data yields for one language
GeneratePathData(code, translations) ==
    [i \in 1..Len(Templates) |->
        [path |-> get_translations_path(code, Templates[i]),
         language_code |-> code,
         content |-> serialize(translations[Templates[i]])]]

\* one round of the comprehension of generate: get_generate_data(language)
\* for the next language of config.languages
get_generate_data ==
    /\ pc = "command"
    /\ cursor <= Len(languages)
    /\ LET code == languages[cursor]
       IN IF is_default(code)
          THEN /\ cursor' = cursor + 1
               /\ UNCHANGED <<pc, extracted, path_data, raised>>
          ELSE \E order \in FileOrders(files[code]) :
                LET r == get_translations(extracted, files[code], order)
                IN /\ extracted' = ExtractedAfter(extracted, r.translations)
                   /\ raised' = r.raised
                   /\ IF r.raised # NoError
                      THEN /\ pc' = "failed"
                           /\ UNCHANGED <<cursor, path_data>>
                      ELSE /\ cursor' = cursor + 1
                           /\ path_data' =
                                path_data \o GeneratePathData(code, r.translations)
                           /\ UNCHANGED pc
    /\ UNCHANGED <<inner_text, padded_text, tag_data, padded_tag, template_text,
                   files, languages, strict, dry_run, rendered>>

\* write_path_data for the translations directories: data.path.write_text
RECURSIVE WriteTranslations(_, _)
WriteTranslations(dirs, data) ==
    IF data = <<>> THEN dirs
    ELSE WriteTranslations(
            [dirs EXCEPT ![Head(data).path[2]][Head(data).path[3]] =
                            File(Head(data).content)],
            Tail(data))

\* the end of generate: self.write_path_data(path_data)
GenerateWrite ==
    /\ pc = "command"
    /\ cursor > Len(languages)
    /\ files' = IF dry_run THEN files ELSE WriteTranslations(files, path_data)
    /\ pc' = "done"
    /\ UNCHANGED <<inner_text, padded_text, tag_data, padded_tag, template_text,
                   languages, strict, dry_run, extracted, cursor, path_data, raised,
                   rendered>>

NextGenerate == Construct \/ get_generate_data \/ GenerateWrite

SpecGenerate == InitGenerate /\ [][NextGenerate]_vars

---------------------------------------------------------------------------
(* Command.get_translations_dict and Command.get_translated_text *)

FileNotFoundError(path) ==
    [exc |-> "FileNotFoundError", msg |-> "No such file or directory", path |-> path]

\* KeyError(msg) in strict mode, IncompleteTranslationsError(msg) otherwise,
\* msg = f"Missing translation for {key=} in {language.code=}"
MissingTranslationError(is_strict, key, code) ==
    [exc |-> IF is_strict THEN "KeyError" ELSE "IncompleteTranslationsError",
     msg |-> "Missing translation", key |-> key, code |-> code]

\* ValueError(f"Missing literal '{literal}' in {key=}")
MissingLiteralError(key, literal) ==
    [exc |-> "ValueError", msg |-> "Missing literal", key |-> key,
     literal |-> literal]

\* the KeyError of translations_dict[key]: its message is the key alone
LookupError(key) == [exc |-> "KeyError", msg |-> "key", key |-> key]

\* a check of the literal against the source text instead of the translation
LiteralLostFromOriginal(literal, translation) == ~In(literal, translation.original)

\* `literal not in translation.translated`
LiteralLost(literal, translation) == ~In(literal, translation.translated)

\* literal_regex.sub(self._get_inner_text, text): every match gives way to
\* its inner text
RECURSIVE Unwrap(_, _, _)
Unwrap(text, ms, from) ==
    IF ms = <<>> THEN SubSeq(text, from, Len(text))
    ELSE SubSeq(text, from, Head(ms).from - 1) \o Head(ms).inner_text
         \o Unwrap(text, Tail(ms), Head(ms).to + 1)

UnwrapLiterals(text) == Unwrap(text, Matches(text, LiteralBoundary, 1), 1)

\* str-valued dicts: entries [key, text] in insertion order
TextSet(dict, key, text) == DictSet(dict, key, [key |-> key, text |-> text])

\* the loop over translations.items() of get_translations_dict
RECURSIVE CleanLoop(_, _, _, _)
CleanLoop(cleaned, translations, code, is_strict) ==
    IF translations = <<>> THEN [dict |-> cleaned, raised |-> NoError]
    ELSE LET translation == Head(translations)
             key == translation.key
             lost == {i \in 1..Len(translation.literals) :
                        LiteralLost(translation.literals[i], translation)}
         IN IF translation.translated = <<>>
            THEN [dict |-> TextSet(cleaned, key, translation.translated),
                  raised |-> MissingTranslationError(is_strict, key, code)]
            ELSE IF lost # {}
            THEN [dict |-> TextSet(cleaned, key, translation.translated),
                  raised |-> MissingLiteralError(key,
                        translation.literals[CHOOSE i \in lost :
                                                \A j \in lost : i <= j])]
            ELSE CleanLoop(
                    TextSet(cleaned, key,
                            IF translation.literals # <<>>
                            THEN UnwrapLiterals(translation.translated)
                            ELSE translation.translated),
                    Tail(translations), code, is_strict)

get_translations_dict(ext, dirs, code, template, is_strict) ==
    IF is_default(code)
    THEN [dict |-> [i \in 1..Len(ext.translations[template]) |->
                        [key |-> ext.translations[template][i].key,
                         text |-> ext.translations[template][i].original]],
          raised |-> NoError]
    ELSE IF ~dirs[code][template].exists
    THEN [dict |-> <<>>, raised |-> FileNotFoundError(get_translations_path(code, template))]
    ELSE CleanLoop(<<>>, deserialize(dirs[code][template].doc), code, is_strict)

\* Command._get_translated on one match: the replacement text, or the
\* KeyError of the lookup
get_translated(inner, translations_dict) ==
    IF TranslationBoundary.symbol # "$"
    THEN [text |-> inner, raised |-> NoError]
    ELSE LET key == TagData_from_text(inner).key
         IN IF HasKey(translations_dict, key)
            THEN [text |-> Get(translations_dict, key).text, raised |-> NoError]
            ELSE [text |-> <<>>, raised |-> LookupError(key)]

\* translatable.sub(translations, template_text), match by match
RECURSIVE Substitute(_, _, _, _)
Substitute(text, ms, from, translations_dict) ==
    IF ms = <<>> THEN [content |-> SubSeq(text, from, Len(text)), raised |-> NoError]
    ELSE LET r == get_translated(Head(ms).inner_text, translations_dict)
             rest == Substitute(text, Tail(ms), Head(ms).to + 1, translations_dict)
         IN IF r.raised # NoError THEN [content |-> <<>>, raised |-> r.raised]
            ELSE IF rest.raised # NoError THEN rest
            ELSE [content |-> SubSeq(text, from, Head(ms).from - 1) \o r.text
                                \o rest.content,
                  raised |-> NoError]

\* Command.get_translated_text: the content of the PathData it yields, or the
\* exception that leaves it
get_translated_text(ext, dirs, texts, code, template, is_strict) ==
    LET d == get_translations_dict(ext, dirs, code, template, is_strict)
    IN IF d.raised # NoError /\ d.raised.exc = "IncompleteTranslationsError"
       THEN [content |-> construction_message(code), raised |-> NoError]
       ELSE IF d.raised # NoError THEN [content |-> <<>>, raised |-> d.raised]
       ELSE Substitute(texts[template],
                       Matches(texts[template], TranslationBoundary, 1), 1, d.dict)

---------------------------------------------------------------------------
(* Command.translate *)

SpanL == <<"a", "<#", "n", "#>">>

TranslateTexts ==
    {TemplateOf(<<SpanA>>), TemplateOf(<<SpanL>>), TemplateOf(<<SpanA, SpanL>>)}

TranslateUnits ==
    {Unit(Sha3Hex(SpanA), SpanA, tr, <<>>) : tr \in {<<>>, <<"x">>}}
    \cup {Unit(Sha3Hex(SpanL), SpanL, tr, <<<<"n">>>>) :
            tr \in {<<>>, <<"x">>, <<"x", "<#", "n", "#>">>}}
    \cup {Unit(Sha3Hex(SpanL), SpanL, <<"x", "<#", "n", "#>">>, <<>>)}

\* the persisted maps a translate run may find at one path
TranslateFiles ==
    {NoFile}
    \cup {File(serialize(units)) :
            units \in {u \in UNION {[1..n -> TranslateUnits] : n \in 0..2} :
                        UniqueKeys(u)}}

TranslateLanguages == {<<"fr", "en">>, <<"en", "fr">>}

InitTranslate ==
    /\ pc = "init"
    /\ KeyIdle
    /\ template_text \in [TemplateSet -> TranslateTexts]
    /\ \E f1, f2 \in TranslateFiles :
        /\ Len(f1.doc) + Len(f2.doc) <= MaxPersisted
        /\ files = [c \in OtherLanguages |->
                        IF c = "fr" THEN [t \in TemplateSet |->
                                            IF t = "t1" THEN f1 ELSE f2]
                        ELSE [t \in TemplateSet |-> NoFile]]
    /\ languages \in TranslateLanguages
    /\ strict \in BOOLEAN
    /\ dry_run \in BOOLEAN
    /\ extracted = NoExtracted
    /\ cursor = 1
    /\ path_data = <<>>
    /\ raised = NoError
    /\ rendered = [c \in OtherLanguages \cup {DefaultLanguage} |->
                        [t \in TemplateSet |-> NoFile]]

\* the (language, template) pairs in the order the comprehension of
\* translate visits them
Pairs ==
    [i \in 1..(Len(languages) * Len(Templates)) |->
        [code |-> languages[((i - 1) \div Len(Templates)) + 1],
         template |-> Templates[((i - 1) % Len(Templates)) + 1]]]

\* one round of the comprehension of translate: get_translated_text for the
\* next (language, template) pair
RenderPair ==
    /\ pc = "command"
    /\ cursor <= Len(Pairs)
    /\ LET code == Pairs[cursor].code
           template == Pairs[cursor].template
           r == get_translated_text(extracted, files, template_text, code, template,
                                  strict)
       IN /\ raised' = r.raised
          /\ IF r.raised # NoError
             THEN /\ pc' = "failed"
                  /\ UNCHANGED <<cursor, path_data>>
             ELSE /\ cursor' = cursor + 1
                  /\ path_data' = Append(path_data,
                        [path |-> get_translated_path(code, template),
                         language_code |-> code,
                         content |-> r.content])
                  /\ UNCHANGED pc
    /\ UNCHANGED <<inner_text, padded_text, tag_data, padded_tag, template_text,
                   files, languages, strict, dry_run, extracted, rendered>>

\* write_path_data for the translated directories
RECURSIVE WriteTranslated(_, _)
WriteTranslated(dirs, data) ==
    IF data = <<>> THEN dirs
    ELSE WriteTranslated(
            [dirs EXCEPT ![Head(data).path[2]][Head(data).path[3]] =
                            File(Head(data).content)],
            Tail(data))

\* the end of translate: self.write_path_data(path_data)
TranslateWrite ==
    /\ pc = "command"
    /\ cursor > Len(Pairs)
    /\ rendered' = IF dry_run THEN rendered ELSE WriteTranslated(rendered, path_data)
    /\ pc' = "done"
    /\ UNCHANGED <<inner_text, padded_text, tag_data, padded_tag, template_text,
                   files, languages, strict, dry_run, extracted, cursor, path_data,
                   raised>>

NextTranslate == Construct \/ RenderPair \/ TranslateWrite

SpecTranslate == InitTranslate /\ [][NextTranslate]_vars

---------------------------------------------------------------------------
(* Properties of generate *)

\* the entry of a YAML document for a key
Entry(doc, key) == doc[CHOOSE i \in 1..Len(doc) : doc[i].key = key]

\* the persisted map at path (code, file) gives key the non-empty text
Supplies(code, file, key, text) ==
    /\ files[code][file].exists
    /\ HasKey(files[code][file].doc, key)
    /\ Entry(files[code][file].doc, key).value.translated = text
    /\ text # <<>>

\* the reverse index lists template under key
References(template, key) ==
    \E i \in 1..Len(extracted.paths) :
        /\ extracted.paths[i].key = key
        /\ template \in Range(extracted.paths[i].paths)

PersistedKeys == {u.key : u \in GenerateUnits}
PersistedTexts == {u.translated : u \in GenerateUnits}

\* two persisted maps of the language disagree on a key of the extraction
ConflictOn(code, key) ==
    /\ \E t \in TemplateSet : References(t, key)
    /\ \E f1, f2 \in TemplateSet, x1, x2 \in PersistedTexts :
        /\ x1 # x2
        /\ Supplies(code, f1, key, x1)
        /\ Supplies(code, f2, key, x2)

\* the files are still those the run started from
FilesAsRead == pc \in {"command", "failed"}

\* C1: merge preserves work.  Whenever get_translations has returned for a
\* language, every template that the reverse index lists under a key k has, in
\* its merged map, the non-empty translated text that any persisted map of
\* that language holds for k.
C1_MergePreservesWork ==
    FilesAsRead =>
        \A i \in 1..Len(path_data) :
            \A f \in TemplateSet, k \in PersistedKeys, x \in PersistedTexts :
                ( /\ Supplies(path_data[i].language_code, f, k, x)
                  /\ References(path_data[i].path[3], k) )
                => /\ HasKey(path_data[i].content, k)
                   /\ Entry(path_data[i].content, k).value.translated = x

\* C1 witness: the merged map of t2 carries a text that only the persisted
\* map of t1 held.
C1_Witness ==
    /\ FilesAsRead
    /\ \E i \in 1..Len(path_data), k \in PersistedKeys, x \in PersistedTexts :
        /\ path_data[i].path[3] = "t2"
        /\ Supplies(path_data[i].language_code, "t1", k, x)
        /\ ~files[path_data[i].language_code]["t2"].exists
        /\ References("t2", k)
        /\ References("t1", k)
        /\ Entry(path_data[i].content, k).value.translated = x

\* the first language of config.languages that is not the default one
FirstOther ==
    CHOOSE i \in 1..Len(languages) :
        /\ ~is_default(languages[i])
        /\ \A j \in 1..(i - 1) : is_default(languages[j])

C3_LanguagesIsolated ==
    FilesAsRead =>
        /\ \A i \in 1..Len(path_data) :
            \A j \in 1..Len(path_data[i].content) :
                LET e == path_data[i].content[j]
                IN e.value.translated # <<>> =>
                    \E f \in TemplateSet :
                        Supplies(path_data[i].language_code, f, e.key,
                                 e.value.translated)
        /\ pc = "failed" =>
            \E k \in PersistedKeys : ConflictOn(languages[cursor], k)

\* the keys a fresh extraction derives from the template
ExtractedKeys(template) ==
    {TagData_from_text(m).key :
        m \in Range(FindAll(template_text[template], TranslationBoundary))}

\* C4: dead-key pruning.  Every merged map generate serializes, and every map
\* it writes, has exactly the keys extracted from its template.
C4_DeadKeyPruning ==
    /\ \A i \in 1..Len(path_data) :
        Keys(path_data[i].content) = ExtractedKeys(path_data[i].path[3])
    /\ (pc = "done" /\ ~dry_run) =>
        \A i \in 1..Len(languages), t \in TemplateSet :
            ~is_default(languages[i]) =>
                /\ files[languages[i]][t].exists
                /\ Keys(files[languages[i]][t].doc) = ExtractedKeys(t)

\* C4 witness: a persisted map of the language holds a translated key that no
\* template yields any more, and the merged maps of the language are complete.
C4_Witness ==
    /\ pc = "command"
    /\ cursor > Len(languages)
    /\ \E c \in OtherLanguages, f \in TemplateSet, k \in PersistedKeys,
          x \in PersistedTexts :
        /\ Supplies(c, f, k, x)
        /\ \A t \in TemplateSet : k \notin ExtractedKeys(t)
        /\ \E d \in Range(path_data) :
            d.language_code = c /\ d.path[3] = f /\ k \notin Keys(d.content)

\* C10: duplicate-key divergence is flagged.  Once extraction has run, two
\* spans of one template that derive the same key with different original
\* text have made the run fail instead of one unit replacing the other.
C10_DivergenceFlagged ==
    pc # "init" =>
        \A t \in TemplateSet :
            \A m1, m2 \in Range(FindAll(template_text[t], TranslationBoundary)) :
                ( /\ TagData_from_text(m1).key = TagData_from_text(m2).key
                  /\ TagData_from_text(m1).original # TagData_from_text(m2).original )
                => raised # NoError

---------------------------------------------------------------------------
(* Properties of translate *)

\* get_translated_text has run for the i-th pair
Attempted(i) == i < cursor \/ (i = cursor /\ pc = "failed")

\* the run ended in the i-th pair
FailedAt(i) == i = cursor /\ pc = "failed"

\* sub occurs verbatim inside text
Occurs(sub, text) ==
    \E i \in 1..(Len(text) - Len(sub) + 1) : SubSeq(text, i, i + Len(sub) - 1) = sub

\* the positions of the literals recorded on a map entry that its translated
\* text lacks
LostLiterals(e) ==
    {m \in 1..Len(e.value.literals) :
        ~Occurs(e.value.literals[m], e.value.translated)}

Untranslated(e) == e.value.translated = <<>>

\* C5 as stated: literal preservation.  Rendering a non-default language
\* fails with a literal-loss error naming key and literal for every
\* translated unit of the map that lacks a recorded literal, and a unit
\* whose literals all occur raises no such error.
C5_LiteralPreservation ==
    \A i \in 1..Len(Pairs) :
        ( /\ Attempted(i)
          /\ ~is_default(Pairs[i].code)
          /\ files[Pairs[i].code][Pairs[i].template].exists )
        => LET doc == files[Pairs[i].code][Pairs[i].template].doc
           IN \A j \in 1..Len(doc) :
                ~Untranslated(doc[j]) =>
                    /\ \A m \in LostLiterals(doc[j]) :
                        /\ FailedAt(i)
                        /\ raised = MissingLiteralError(doc[j].key,
                                                        doc[j].value.literals[m])
                    /\ LostLiterals(doc[j]) = {} =>
                        ~( /\ FailedAt(i)
                           /\ raised.msg = "Missing literal"
                           /\ raised.key = doc[j].key )

\* C5 as amended: the units of the persisted map are validated in map order
\* and the first failure ends the validation.  A translated unit that lacks
\* a recorded literal, all units before it being translated with their
\* literals present, makes render fail, in strict and in lenient mode, with a
\* literal-loss error naming its key and its first missing literal; and a
\* literal-loss error only ever names a unit and a literal that the unit's
\* translated text lacks.
C5_FirstLiteralLoss ==
    \A i \in 1..Len(Pairs) :
        ( /\ Attempted(i)
          /\ ~is_default(Pairs[i].code)
          /\ files[Pairs[i].code][Pairs[i].template].exists )
        => LET doc == files[Pairs[i].code][Pairs[i].template].doc
           IN /\ \A j \in 1..Len(doc) :
                    ( /\ ~Untranslated(doc[j])
                      /\ LostLiterals(doc[j]) # {}
                      /\ \A h \in 1..(j - 1) :
                            ~Untranslated(doc[h]) /\ LostLiterals(doc[h]) = {} )
                    => /\ FailedAt(i)
                       /\ raised.exc = "ValueError"
                       /\ raised.msg = "Missing literal"
                       /\ raised.key = doc[j].key
                       /\ \E m \in LostLiterals(doc[j]) :
                            /\ \A n \in LostLiterals(doc[j]) : m <= n
                            /\ raised.literal = doc[j].value.literals[m]
              /\ (FailedAt(i) /\ raised.msg = "Missing literal") =>
                    \E j \in 1..Len(doc) : \E m \in 1..Len(doc[j].value.literals) :
                        /\ doc[j].key = raised.key
                        /\ doc[j].value.literals[m] = raised.literal
                        /\ m \in LostLiterals(doc[j])

\* C5 witness: the second unit of a map lost its literal, the first one is
\* complete, and the run failed naming the second.
C5_Witness ==
    /\ pc = "failed"
    /\ raised.msg = "Missing literal"
    /\ LET doc == files[Pairs[cursor].code][Pairs[cursor].template].doc
       IN /\ Len(doc) = 2
          /\ ~Untranslated(doc[1])
          /\ LostLiterals(doc[1]) = {}
          /\ raised.key = doc[2].key
          /\ LostLiterals(doc[2]) # {}

\* the keys a template refers to that the pair's persisted map leaves
\* without translated text
Pending(code, template) ==
    {k \in ExtractedKeys(template) :
        LET doc == files[code][template].doc
        IN ~HasKey(doc, k) \/ Untranslated(Entry(doc, k))}

NoLiteralLost(code, template) ==
    \A j \in 1..Len(files[code][template].doc) :
        LostLiterals(files[code][template].doc[j]) = {}

\* C6: lenient fallback.  In non-strict mode, a pair of a non-default
\* language whose persisted map leaves a key of the template empty or
\* missing (and in which no unit lost a literal) raises no error and yields
\* exactly the construction message of the language.
C6_LenientFallback ==
    \A i \in 1..Len(Pairs) :
        ( /\ Attempted(i)
          /\ ~strict
          /\ ~is_default(Pairs[i].code)
          /\ files[Pairs[i].code][Pairs[i].template].exists
          /\ NoLiteralLost(Pairs[i].code, Pairs[i].template)
          /\ Pending(Pairs[i].code, Pairs[i].template) # {} )
        => /\ ~FailedAt(i)
           /\ path_data[i].content = construction_message(Pairs[i].code)

\* C7: strict-mode missing translation.  In strict mode, a pair of a
\* non-default language whose persisted map is deleted or leaves a key of
\* the template empty or missing (and in which no unit lost a literal) fails
\* with a missing-translation error naming the language and a key without
\* translated text.
C7_StrictMissing ==
    \A i \in 1..Len(Pairs) :
        ( /\ Attempted(i)
          /\ strict
          /\ ~is_default(Pairs[i].code)
          /\ NoLiteralLost(Pairs[i].code, Pairs[i].template)
          /\ Pending(Pairs[i].code, Pairs[i].template) # {} )
        => /\ FailedAt(i)
           /\ raised.exc = "KeyError"
           /\ raised.msg = "Missing translation"
           /\ raised.code = Pairs[i].code
           /\ \/ raised.key \in Pending(Pairs[i].code, Pairs[i].template)
              \/ \E j \in 1..Len(files[Pairs[i].code][Pairs[i].template].doc) :
                    LET e == files[Pairs[i].code][Pairs[i].template].doc[j]
                    IN e.key = raised.key /\ Untranslated(e)

\* C8: render error scope.  When a lenient run that is no dry run has ended
\* in a literal-loss error of one pair, every other pair whose own render
\* raises nothing has its rendered output written.
C8_RenderErrorScope ==
    ( /\ pc = "failed"
      /\ ~strict
      /\ ~dry_run
      /\ raised.msg = "Missing literal" )
    => \A i \in 1..Len(Pairs) :
        LET r == get_translated_text(extracted, files, template_text, Pairs[i].code,
                                   Pairs[i].template, strict)
        IN (i # cursor /\ r.raised = NoError) =>
            rendered[Pairs[i].code][Pairs[i].template] = File(r.content)

---------------------------------------------------------------------------
(* Properties of TagData.from_text *)

\* text holds "::" twice, the two not overlapping
TwoSeparators(text) ==
    \E i, j \in 1..(Len(text) - 1) :
        /\ i + 2 <= j
        /\ text[i] = ":" /\ text[i + 1] = ":"
        /\ text[j] = ":" /\ text[j + 1] = ":"

\* the shape "::comments::original" of the explicit-key rule
ExplicitKeyShape(text) ==
    /\ TwoSeparators(text)
    /\ text[1] = ":" /\ text[2] = ":"

\* C9: key derivation default rule.  For an inner text whose stripped form is
\* not of the explicit-key shape, from_text returns the digest of the stripped
\* text as key, the stripped text as original and no comments, and the same
\* text with more whitespace around it gets the same key.
C9_DefaultRule ==
    (pc = "done" /\ ~ExplicitKeyShape(Strip(inner_text))) =>
        /\ tag_data = [key |-> Sha3Hex(Strip(inner_text)),
                       original |-> Strip(inner_text),
                       comments |-> <<>>]
        /\ padded_tag.key = tag_data.key

---------------------------------------------------------------------------
(* Properties of the merged unit and of the rendered text *)

\* the unit a fresh extraction of the run's templates gives the template
\* for the key
FreshUnit(template, key) ==
    Get(extract_translatable(Templates, template_text).translations[template], key)

\* C12: merge touches only the translated field.  A unit of a merged map
\* that carries a persisted translation has the original, the comments and
\* the literals of the fresh extraction of its template.
C12_MergeTouchesOnlyTranslated ==
    FilesAsRead =>
        \A i \in 1..Len(path_data) :
            \A j \in 1..Len(path_data[i].content) :
                LET e == path_data[i].content[j]
                    fresh == FreshUnit(path_data[i].path[3], e.key)
                IN e.value.translated # <<>> =>
                    /\ e.value.original = fresh.original
                    /\ e.value.comments = fresh.comments
                    /\ e.value.literals = fresh.literals

\* C11: literal unwrapping on render.  No rendered text of any language, the
\* default one included, holds a literal-marked sub-span: the markers of the
\* resolved text are gone from what translate collects and writes.
C11_LiteralsUnwrapped ==
    \A i \in 1..Len(path_data) :
        /\ Matches(path_data[i].content, LiteralBoundary, 1) = <<>>
        /\ \A m \in 1..Len(path_data[i].content) :
            /\ path_data[i].content[m] # LiteralBoundary.opening
            /\ path_data[i].content[m] # LiteralBoundary.closing

=============================================================================
